---- MODULE Spec2Model ----
(***************************************************************************)
(* A model of pickyport.py: MySQLPorter (construction, command planning)   *)
(* and BasePorter.do_portage (execution loop, temp-file cleanup).          *)
(*                                                                         *)
(* Strings built with % formatting are modelled as structured values:      *)
(* a shell command is a sequence of tokens [opt, arg], where arg is the    *)
(* sequence of strings substituted into that part of the command line; a   *)
(* description line is [msg, arg].  "tf in cmd[1]" (substring test) is the *)
(* test that some token carries tf among its arguments.                    *)
(***************************************************************************)
EXTENDS Integers, Sequences, FiniteSets, TLC

\* ------------------------------------------------------------------ bounds
MaxDest == 2       \* destinations per portage
MaxUsers == 1      \* test users per portage
MaxIgnore == 2     \* ignored tables of a portage that ignores any
MaxScripts == 2    \* update scripts per portage
MaxErrors == 2     \* steps whose stderr carries the ERROR marker, per run

\* ------------------------------------------------------------- value pools
None == <<>>       \* Python's None for self.mysql / self.mysqldump

DestPool ==
  << [host |-> "host1", user |-> "root", password |-> "pw", name |-> "db1"],
     [host |-> "host2", user |-> "root", password |-> "pw", name |-> "db2"],
     [host |-> "host3", user |-> "root", password |-> "pw", name |-> "db3"],
     [host |-> "host4", user |-> "root", password |-> "pw", name |-> "db4"] >>

SourceDb == [host |-> "srchost", user |-> "reader", password |-> "spw", name |-> "srcdb"]

TablePool == << "logs", "audit", "sessions", "events" >>

\* Update scripts named in configurations; only those in ExistingScripts
\* are files on disk.
ScriptPool == { "add_cols.sql", "missing.sql" }
ExistingScripts == { "add_cols.sql" }

TempNames == << "/tmp/tmpA.sql", "/tmp/tmpB.sql", "/tmp/tmpC.sql" >>

\* Values of a test user's 'permissions' key.
Levels == { "admin", "write", "read" }

\* A test user dict, with or without the 'permissions' key.
TestUserDicts ==
  { [user |-> "tester", password |-> "tpw", permissions |-> l] : l \in Levels }
    \cup { [user |-> "tester", password |-> "tpw"] }

\* stderr of a finished subprocess, as a sequence of words.
StderrOutputs == { << "Warning:", "insecure" >>, << "ERROR", "1045" >> }

PathDirs == << "/usr/local/bin", "/usr/bin" >>
Installable == { << "/usr/bin", "mysqldump" >>, << "/usr/local/bin", "mysql" >> }

\* --------------------------------------------------------- sequence helpers
Range(s) == { s[i] : i \in 1..Len(s) }

Prefix(s, n) == [ i \in 1..n |-> s[i] ]

SeqsUpTo(S, n) == UNION { [1..k -> S] : k \in 0..n }

RECURSIVE Flatten(_)
Flatten(ss) == IF ss = <<>> THEN <<>> ELSE Head(ss) \o Flatten(Tail(ss))

RECURSIVE SelectSeqBy(_, _)
\* the subsequence of s whose elements are in S
SelectSeqBy(s, S) ==
  IF s = <<>> THEN <<>>
  ELSE IF Head(s) \in S THEN << Head(s) >> \o SelectSeqBy(Tail(s), S)
       ELSE SelectSeqBy(Tail(s), S)

Tok(o, a) == [opt |-> o, arg |-> a]

\* '%s' % x for an executable path that may be None
Str(x) == IF x = None THEN << "None" >> ELSE x

\* ------------------------------------------------------------------- which
\* is_exe(abs_path): a regular file with the executable bit
is_exe(execs, abs_path) == abs_path \in execs

RECURSIVE which_search(_, _, _)
\* the for loop over os.environ["PATH"]: first directory holding the program
which_search(execs, dirs, name) ==
  IF dirs = <<>> THEN None
  ELSE IF is_exe(execs, << Head(dirs), name >>) THEN << Head(dirs), name >>
       ELSE which_search(execs, Tail(dirs), name)

\* which(program); program is <<directory part, file name>> as os.path.split
\* returns it, the directory part being "" for a bare name.
which(execs, program) ==
  IF program[1] # ""
    THEN IF is_exe(execs, program) THEN program ELSE None
    ELSE which_search(execs, PathDirs, program[2])

\* --------------------------------------------------- MySQLPorter commands
Step(echo, cmd) == [echo |-> echo, cmd |-> cmd]

Echo(m, a) == [msg |-> m, arg |-> a]

\* "-h%s -u%s -p%s" for a connection descriptor
Conn(db) == << Tok("-h", << db.host >>), Tok("-u", << db.user >>),
               Tok("-p", << db.password >>) >>

\* variant: the loop stops one table short
ignored_flags_skip_last(source, ignore_tables) ==
  [ i \in 1..(Len(ignore_tables) - 1) |->
      Tok("--ignore-table", << source.name, ignore_tables[i] >>) ]

\* the --ignore-table flags accumulated by the loop over self.ignore_tables
ignored_flags(source, ignore_tables) ==
  [ i \in 1..Len(ignore_tables) |->
      Tok("--ignore-table", << source.name, ignore_tables[i] >>) ]

data_flag(schema_only, ignore_tables) ==
  IF schema_only THEN << Tok("--no-data", <<>>) >>
  ELSE IF ignore_tables # <<>>
    THEN << Tok("--no-create-info", <<>>), Tok("--complete-insert", <<>>) >>
    ELSE << Tok("--complete-insert", <<>>) >>

dump_type(schema_only, ignore_tables) ==
  IF schema_only THEN "empty schema"
  ELSE IF ignore_tables # <<>> THEN "selected data"
  ELSE "all tables and data"

create_dump_command(mysqldump, source, ignore_tables, schema_only, output_file) ==
  Step(Echo("Dumping", << dump_type(schema_only, ignore_tables),
                          source.host, source.name >>),
       << Tok("prog", Str(mysqldump)),
          Tok("--lock-tables=false", <<>>), Tok("--routines=true", <<>>) >>
       \o data_flag(schema_only, ignore_tables)
       \o ignored_flags(source, ignore_tables)
       \o << Tok("--result-file", << output_file >>) >>
       \o Conn(source)
       \o << Tok("db", << source.name >>) >>)

\* variant: only the first destination is loaded
create_load_commands_first_only(mysql, dest, input_file) ==
  [ i \in 1..(IF dest = <<>> THEN 0 ELSE 1) |->
      Step(Echo("Loading", << input_file, dest[i].name, dest[i].host >>),
           << Tok("prog", Str(mysql)) >> \o Conn(dest[i])
           \o << Tok("db", << dest[i].name >>), Tok("<", << input_file >>) >>) ]

create_load_commands(mysql, dest, input_file) ==
  [ i \in 1..Len(dest) |->
      Step(Echo("Loading", << input_file, dest[i].name, dest[i].host >>),
           << Tok("prog", Str(mysql)) >> \o Conn(dest[i])
           \o << Tok("db", << dest[i].name >>), Tok("<", << input_file >>) >>) ]

create_db_commands(mysql, dest) ==
  [ i \in 1..Len(dest) |->
      Step(Echo("Creating", << dest[i].name, dest[i].host >>),
           << Tok("prog", Str(mysql)) >> \o Conn(dest[i])
           \o << Tok("-e", << "DROP DATABASE IF EXISTS", dest[i].name,
                              "CREATE DATABASE", dest[i].name >>) >>) ]

\* test_user['permissions'] raises KeyError when the dict has no such key
HasKey(d, k) == k \in DOMAIN d

\* TRUE when the loop over self.test_users hits a dict without 'permissions'
grant_raises(test_users) ==
  \E i \in 1..Len(test_users) : ~HasKey(test_users[i], "permissions")

permissions_sql(level) ==
  IF level = "write" THEN "SELECT, INSERT, UPDATE, DELETE, EXECUTE"
  ELSE IF level = "admin" THEN "ALL"
  ELSE "SELECT"

\* the commands returned when no KeyError is raised
create_grant_commands(mysql, dest, test_users) ==
  Flatten([ u \in 1..Len(test_users) |->
    [ i \in 1..Len(dest) |->
        Step(Echo("Granting", << test_users[u].user, test_users[u].permissions,
                                 dest[i].host, dest[i].name >>),
             << Tok("prog", Str(mysql)) >> \o Conn(dest[i])
             \o << Tok("-e", << "GRANT", permissions_sql(test_users[u].permissions),
                                "on", dest[i].name, "to", test_users[u].user,
                                "IDENTIFIED BY", test_users[u].password,
                                "FLUSH PRIVILEGES" >>) >>) ] ])

\* os.path.isfile(update)
isfile(fs, path) == path \in fs

\* variant: no os.path.isfile test, every listed script is applied
create_update_commands_unchecked(mysql, dest, update_scripts, fs) ==
  Flatten([ s \in 1..Len(update_scripts) |->
    [ i \in 1..Len(dest) |->
        Step(Echo("Applying", << update_scripts[s], dest[i].host, dest[i].name >>),
             << Tok("prog", Str(mysql)) >> \o Conn(dest[i])
             \o << Tok("db", << dest[i].name >>),
                   Tok("<", << update_scripts[s] >>) >>) ] ])

create_update_commands(mysql, dest, update_scripts, fs) ==
  Flatten([ s \in 1..Len(update_scripts) |->
    IF ~isfile(fs, update_scripts[s]) THEN <<>>
    ELSE [ i \in 1..Len(dest) |->
        Step(Echo("Applying", << update_scripts[s], dest[i].host, dest[i].name >>),
             << Tok("prog", Str(mysql)) >> \o Conn(dest[i])
             \o << Tok("db", << dest[i].name >>),
                   Tok("<", << update_scripts[s] >>) >>) ] ])

\* what create_update_commands prints: one line per script that is no file
update_diagnostics(update_scripts, fs) ==
  Flatten([ s \in 1..Len(update_scripts) |->
    IF ~isfile(fs, update_scripts[s])
      THEN << [what |-> "missing", text |-> update_scripts[s]] >>
      ELSE <<>> ])

\* --------------------------------------------------------------- temp files
\* NamedTemporaryFile(suffix='.sql', delete=False): a name not yet in use
new_temp_name(fs) ==
  TempNames[CHOOSE i \in 1..Len(TempNames) :
              /\ TempNames[i] \notin fs
              /\ \A j \in 1..(i-1) : TempNames[j] \in fs]

\* the names returned by the get_temporary_file calls of do_portage, in order
planned_temp_files(fetch_data, ignore_tables, fs) ==
  IF fetch_data /\ ignore_tables # <<>>
    THEN << new_temp_name(fs), new_temp_name(fs \cup { new_temp_name(fs) }) >>
    ELSE << new_temp_name(fs) >>

\* ------------------------------------------------ do_portage: the planner
\* lines 179-194: the dump/load cycles over the temp files tf
transfer_commands(mysql, mysqldump, source, dest, fetch_data, ignore_tables, tf) ==
  IF fetch_data
    THEN IF ignore_tables # <<>>
      THEN << create_dump_command(mysqldump, source, ignore_tables, TRUE, tf[1]) >>
           \o create_load_commands(mysql, dest, tf[1])
           \o << create_dump_command(mysqldump, source, ignore_tables, FALSE, tf[2]) >>
           \o create_load_commands(mysql, dest, tf[2])
      ELSE << create_dump_command(mysqldump, source, ignore_tables, FALSE, tf[1]) >>
           \o create_load_commands(mysql, dest, tf[1])
    ELSE << create_dump_command(mysqldump, source, ignore_tables, TRUE, tf[1]) >>
         \o create_load_commands(mysql, dest, tf[1])

\* variant: the grant commands are planned before the create commands
build_cmd_list_grants_first(o, tf, fs) ==
  (IF o.test_users # <<>>
        THEN create_grant_commands(o.mysql, o.dest, o.test_users) ELSE <<>>)
  \o (IF o.create_dest_db THEN create_db_commands(o.mysql, o.dest) ELSE <<>>)
  \o transfer_commands(o.mysql, o.mysqldump, o.source, o.dest,
                       o.fetch_data, o.ignore_tables, tf)
  \o (IF o.update_scripts # <<>>
        THEN create_update_commands(o.mysql, o.dest, o.update_scripts, fs)
        ELSE <<>>)

\* lines 171-197: cmd_list, for a job whose grant planning does not raise
build_cmd_list(o, tf, fs) ==
  (IF o.create_dest_db THEN create_db_commands(o.mysql, o.dest) ELSE <<>>)
  \o (IF o.test_users # <<>>
        THEN create_grant_commands(o.mysql, o.dest, o.test_users) ELSE <<>>)
  \o transfer_commands(o.mysql, o.mysqldump, o.source, o.dest,
                       o.fetch_data, o.ignore_tables, tf)
  \o (IF o.update_scripts # <<>>
        THEN create_update_commands(o.mysql, o.dest, o.update_scripts, fs)
        ELSE <<>>)

\* ----------------------------------------------- do_portage: the executor
Line(w, t) == [what |-> w, text |-> t]

\* lines 207-212: what one loop iteration prints before running the command
prints_before(quiet, debug, dry_run, step) ==
  (IF ~quiet THEN << Line("echo", step.echo) >> ELSE <<>>)
  \o (IF debug \/ dry_run THEN << Line("cmd", step.cmd) >> ELSE <<>>)

\* variant: the dry-run flag is not consulted
runs_subprocess_always(dry_run) == TRUE

\* line 214: the command is handed to Popen unless this is a dry run
runs_subprocess(dry_run) == ~dry_run

\* line 217: "ERROR" in output[1]
has_error(out) == \E i \in 1..Len(out) : out[i] = "ERROR"

\* lines 219-221: the report of a failed step
error_report(debug, step, out) ==
  (IF ~debug THEN << Line("cmd", step.cmd) >> ELSE <<>>)
  \o << Line("stderr", out) >>

\* tf in cmd[1]
mentions(cmd, tf) ==
  \E k \in 1..Len(cmd) : \E a \in 1..Len(cmd[k].arg) : cmd[k].arg[a] = tf

\* list.remove(x): drops the first occurrence of x
RECURSIVE list_remove(_, _)
list_remove(l, x) ==
  IF l = <<>> THEN <<>>
  ELSE IF Head(l) = x THEN Tail(l)
  ELSE << Head(l) >> \o list_remove(Tail(l), x)

RECURSIVE remove_loop(_, _, _)
\* lines 224-226: "for tf in self.temp_files" walks the list by position
\* while the body removes from that same list
remove_loop(temp_files, pos, cmd) ==
  IF pos > Len(temp_files) THEN temp_files
  ELSE IF mentions(cmd, temp_files[pos])
    THEN remove_loop(list_remove(temp_files, temp_files[pos]), pos + 1, cmd)
    ELSE remove_loop(temp_files, pos + 1, cmd)

\* variant: a failed step leaves the deletion list as it is
keep_failed_files_forget(temp_files, cmd) == temp_files

keep_failed_files(temp_files, cmd) == remove_loop(temp_files, 1, cmd)

\* lines 231-235: the files os.remove is called on at the end of the job
files_to_remove(debug, temp_files) ==
  IF ~debug THEN Range(temp_files) ELSE {}

\* lines 228-229
prints_after(quiet) == IF ~quiet THEN << Line("separator", <<>>) >> ELSE <<>>

\* lines 199-203
banner(quiet, dry_run) ==
  IF ~quiet
    THEN IF dry_run THEN << Line("banner", << "Starting portage DRY RUN" >>) >>
         ELSE << Line("banner", << "Starting portage" >>) >>
    ELSE <<>>

\* lines 231-238: what the end of the job prints
prints_at_end(quiet, debug) ==
  (IF ~debug /\ ~quiet THEN << Line("removing", <<>>) >> ELSE <<>>)
  \o (IF ~quiet THEN << Line("complete", <<>>) >> ELSE <<>>)

\* ------------------------------------------------------------ configuration
\* lines 256-260: the two "is None" tests of MySQLPorter.__init__; both
\* of them read self.mysqldump
init_raises(mysqldump, mysql) == mysqldump = None \/ mysqldump = None

EmptyDict == [ k \in {} |-> TRUE ]

Optional(k, V) == { EmptyDict } \cup { k :> v : v \in V }

DestLists == { Prefix(DestPool, n) : n \in 1..MaxDest }

\* 'dest' is a single descriptor or a list of them
DestValues ==
  { [is_list |-> TRUE, value |-> d] : d \in DestLists }
    \cup { [is_list |-> FALSE, value |-> DestPool[1]] }

\* 'ignore_tables': no table, or the first MaxIgnore tables of the pool
IgnoreLists == { <<>>, Prefix(TablePool, MaxIgnore) }

\* the portage entries of the configuration file
PortInfos ==
  { ("source" :> SourceDb) @@ ("dest" :> d) @@ c @@ t @@ f @@ g @@ u :
      d \in DestValues,
      c \in Optional("create_dest_db", BOOLEAN),
      t \in Optional("test_users", SeqsUpTo(TestUserDicts, MaxUsers)),
      f \in Optional("fetch_data", BOOLEAN),
      g \in Optional("ignore_tables", IgnoreLists),
      u \in Optional("update", SeqsUpTo(ScriptPool, MaxScripts)) }

\* BasePorter.__init__
BasePorterInit ==
  [ quiet |-> FALSE, debug |-> FALSE, dry_run |-> FALSE,
    source |-> None, dest |-> <<>>, test_users |-> <<>>,
    create_dest_db |-> FALSE, fetch_data |-> TRUE, ignore_tables |-> <<>>,
    temp_files |-> <<>>, update_scripts |-> <<>>,
    mysqldump |-> None, mysql |-> None ]

\* BasePorter.set_variables
set_variables(o, port_info, quiet, debug, dry_run) ==
  [ o EXCEPT
      !.quiet = quiet, !.debug = debug, !.dry_run = dry_run,
      !.source = port_info["source"],
      !.dest = IF port_info["dest"].is_list THEN port_info["dest"].value
               ELSE << port_info["dest"].value >>,
      !.create_dest_db = IF HasKey(port_info, "create_dest_db")
                           THEN port_info["create_dest_db"] ELSE @,
      !.test_users = IF HasKey(port_info, "test_users")
                       THEN port_info["test_users"] ELSE @,
      !.fetch_data = IF HasKey(port_info, "fetch_data")
                       THEN port_info["fetch_data"] ELSE @,
      !.ignore_tables = IF HasKey(port_info, "ignore_tables")
                          THEN port_info["ignore_tables"] ELSE @,
      !.update_scripts = IF HasKey(port_info, "update")
                           THEN port_info["update"] ELSE @ ]

\* -------------------------------------------------------------------- state
VARIABLES
  pc,        \* "start", "constructed", "running", "done" or "raised"
  execs,     \* the executable files of the machine, as <<directory, name>>
  fs,        \* the regular files that exist: update scripts and temp files
  self,      \* the porter object's fields
  cmd_list,  \* do_portage's local list of (description, command) steps
  idx,       \* how many steps the for loop of do_portage has gone through
  console,   \* everything printed so far
  executed,  \* the commands handed to Popen so far
  stderrs    \* the stderr each of those subprocesses produced

vars == << pc, execs, fs, self, cmd_list, idx, console, executed, stderrs >>

Init ==
  /\ pc = "start"
  /\ execs \in SUBSET Installable
  /\ fs = ExistingScripts
  /\ self = BasePorterInit
  /\ cmd_list = <<>>
  /\ idx = 0
  /\ console = <<>>
  /\ executed = <<>>
  /\ stderrs = <<>>

\* MySQLPorter(portage, args.quiet, args.debug, args.dry_run)
Construct ==
  /\ pc = "start"
  /\ \E port_info \in PortInfos, quiet \in BOOLEAN, debug \in BOOLEAN,
        dry_run \in BOOLEAN :
       LET found == [ self EXCEPT
                        !.mysqldump = which(execs, << "", "mysqldump" >>),
                        !.mysql = which(execs, << "", "mysql" >>) ]
       IN IF init_raises(found.mysqldump, found.mysql)
            THEN /\ pc' = "raised"
                 /\ self' = found
            ELSE /\ pc' = "constructed"
                 /\ self' = set_variables(found, port_info, quiet, debug, dry_run)
  /\ UNCHANGED << execs, fs, cmd_list, idx, console, executed, stderrs >>

\* do_portage up to the for loop (lines 171-203): plan the steps, creating
\* the temp files on the way, and print the banner
Plan ==
  /\ pc = "constructed"
  /\ IF self.test_users # <<>> /\ grant_raises(self.test_users)
       THEN /\ pc' = "raised"
            /\ UNCHANGED << fs, self, cmd_list, console >>
       ELSE LET tf == planned_temp_files(self.fetch_data, self.ignore_tables, fs)
                fs2 == fs \cup Range(tf)
            IN /\ pc' = "running"
               /\ fs' = fs2
               /\ self' = [ self EXCEPT !.temp_files = @ \o tf ]
               /\ cmd_list' = build_cmd_list(self, tf, fs2)
               /\ console' = console
                    \o (IF self.update_scripts # <<>>
                          THEN update_diagnostics(self.update_scripts, fs2)
                          ELSE <<>>)
                    \o banner(self.quiet, self.dry_run)
  /\ UNCHANGED << execs, idx, executed, stderrs >>

ErrorCount == Cardinality({ i \in 1..Len(stderrs) : has_error(stderrs[i]) })

\* one iteration of "for cmd in cmd_list" (lines 205-229)
RunStep ==
  /\ pc = "running"
  /\ idx < Len(cmd_list)
  /\ LET step == cmd_list[idx + 1]
     IN IF runs_subprocess(self.dry_run)
          THEN \E out \in StderrOutputs :
                 /\ has_error(out) => ErrorCount < MaxErrors
                 /\ executed' = Append(executed, step.cmd)
                 /\ stderrs' = Append(stderrs, out)
                 /\ console' = console
                      \o prints_before(self.quiet, self.debug, self.dry_run, step)
                      \o (IF has_error(out)
                            THEN error_report(self.debug, step, out) ELSE <<>>)
                      \o prints_after(self.quiet)
                 /\ self' = IF has_error(out)
                              THEN [ self EXCEPT !.temp_files =
                                       keep_failed_files(@, step.cmd) ]
                              ELSE self
          ELSE /\ console' = console
                    \o prints_before(self.quiet, self.debug, self.dry_run, step)
                    \o prints_after(self.quiet)
               /\ UNCHANGED << executed, stderrs, self >>
  /\ idx' = idx + 1
  /\ UNCHANGED << pc, execs, fs, cmd_list >>

\* the end of do_portage (lines 231-238): remove the temp files still listed
Finish ==
  /\ pc = "running"
  /\ idx = Len(cmd_list)
  /\ fs' = fs \ files_to_remove(self.debug, self.temp_files)
  /\ console' = console \o prints_at_end(self.quiet, self.debug)
  /\ pc' = "done"
  /\ UNCHANGED << execs, self, cmd_list, idx, executed, stderrs >>

Next == Construct \/ Plan \/ RunStep \/ Finish

Spec == Init /\ [][Next]_vars

\* ------------------------------------------------------ reading a step list
\* do_portage has returned from planning: cmd_list is the planned step list
Planned == pc \in { "running", "done" }

NDest == Len(self.dest)

HasOpt(cmd, o) == \E k \in 1..Len(cmd) : cmd[k].opt = o

OptArgs(cmd, o) == { cmd[k].arg : k \in { j \in 1..Len(cmd) : cmd[j].opt = o } }

\* every string substituted anywhere into the command text
Words(cmd) == UNION { Range(cmd[k].arg) : k \in 1..Len(cmd) }

\* the phase a step belongs to, read off its description line
PhaseOf(st) ==
  CASE st.echo.msg = "Creating" -> 1
    [] st.echo.msg = "Granting" -> 2
    [] st.echo.msg \in { "Dumping", "Loading" } -> 3
    [] st.echo.msg = "Applying" -> 4

IsGrant(st) == PhaseOf(st) = 2
IsTransfer(st) == PhaseOf(st) = 3
IsUpdate(st) == PhaseOf(st) = 4

Grants == SelectSeq(cmd_list, IsGrant)
Transfer == SelectSeq(cmd_list, IsTransfer)
Updates == SelectSeq(cmd_list, IsUpdate)

IsDumpTo(st, f) ==
  /\ st.echo.msg = "Dumping"
  /\ OptArgs(st.cmd, "--result-file") = { << f >> }

IsLoadOf(st, d, f) ==
  /\ st.echo.msg = "Loading"
  /\ OptArgs(st.cmd, "<") = { << f >> }
  /\ OptArgs(st.cmd, "-h") = { << d.host >> }
  /\ OptArgs(st.cmd, "db") = { << d.name >> }

IsApplyOf(st, d, script) ==
  /\ st.echo.msg = "Applying"
  /\ OptArgs(st.cmd, "<") = { << script >> }
  /\ OptArgs(st.cmd, "-h") = { << d.host >> }
  /\ OptArgs(st.cmd, "db") = { << d.name >> }

\* x[start] dumps to f and the next NDest steps load f, destination by destination
CycleAt(x, start, f) ==
  /\ IsDumpTo(x[start], f)
  /\ \A i \in 1..NDest : IsLoadOf(x[start + i], self.dest[i], f)

IsSchemaOnlyDump(st) ==
  /\ st.echo.msg = "Dumping"
  /\ HasOpt(st.cmd, "--no-data")

\* the commands of the first n planned steps
PlanPrefix(n) == [ k \in 1..n |-> cmd_list[k].cmd ]

\* the temp files created for the job: those the dump steps write to
CreatedTempFiles ==
  { f \in Range(TempNames) : \E i \in 1..Len(cmd_list) : IsDumpTo(cmd_list[i], f) }

\* the executed steps that reported the error marker and name file f
FailedStepsOn(f) ==
  { k \in 1..Len(executed) : "ERROR" \in Range(stderrs[k]) /\ f \in Words(executed[k]) }

FailedSteps == { k \in 1..Len(executed) : "ERROR" \in Range(stderrs[k]) }

IsCmdLine(l) == l.what = "cmd"
IsMissingLine(l) == l.what = "missing"

ExistingOf(scripts) == SelectSeqBy(scripts, ExistingScripts)
MissingOf(scripts) == SelectSeqBy(scripts, ScriptPool \ ExistingScripts)

\* -------------------------------------------------------------------- claims

\* C1: the planned step list is phase-ordered (create, then grant, then
\* dump/load, then update), and the commands run so far are the first idx
\* planned commands in plan order.
C1_PhaseOrdered ==
  Planned =>
    /\ \A i, j \in 1..Len(cmd_list) :
         i < j => PhaseOf(cmd_list[i]) <= PhaseOf(cmd_list[j])
    /\ ~self.dry_run => executed = PlanPrefix(idx)

C1_Witness ==
  /\ pc = "done"
  /\ ~self.dry_run
  /\ { PhaseOf(cmd_list[i]) : i \in 1..Len(cmd_list) } = 1..4
  /\ Len(executed) = Len(cmd_list)

\* C2: with fetch_data and a non-empty ignore_tables the transfer phase is
\* a schema-only dump to file A, one load of A per destination, a data-only
\* dump to another file B, one load of B per destination; the data dump
\* excludes exactly the ignored tables and uses --no-create-info.
C2_TwoCycles ==
  (Planned /\ self.fetch_data /\ self.ignore_tables # <<>>) =>
    /\ Len(Transfer) = 2 * (1 + NDest)
    /\ \E A, B \in Range(TempNames) :
         /\ A # B
         /\ CycleAt(Transfer, 1, A)
         /\ CycleAt(Transfer, 2 + NDest, B)
    /\ HasOpt(Transfer[1].cmd, "--no-data")
    /\ ~HasOpt(Transfer[1].cmd, "--complete-insert")
    /\ ~HasOpt(Transfer[2 + NDest].cmd, "--no-data")
    /\ HasOpt(Transfer[2 + NDest].cmd, "--no-create-info")
    /\ OptArgs(Transfer[2 + NDest].cmd, "--ignore-table")
         = { << self.source.name, t >> : t \in Range(self.ignore_tables) }

C2_Witness ==
  /\ pc = "done"
  /\ self.fetch_data
  /\ Len(self.ignore_tables) = MaxIgnore
  /\ NDest = 2
  /\ Len(executed) = Len(cmd_list)

\* C3: with fetch_data false, or fetch_data true and no ignored table, the
\* transfer phase is one dump followed by one load per destination in
\* destination order, all on one temp file; the dump is schema-only when
\* fetch_data is false and a combined schema+data dump otherwise.
C3_OneCycle ==
  (Planned /\ ~(self.fetch_data /\ self.ignore_tables # <<>>)) =>
    /\ Len(Transfer) = 1 + NDest
    /\ \E f \in Range(TempNames) :
         /\ CycleAt(Transfer, 1, f)
         /\ CreatedTempFiles = { f }
    /\ ~self.fetch_data =>
         /\ HasOpt(Transfer[1].cmd, "--no-data")
         /\ ~HasOpt(Transfer[1].cmd, "--complete-insert")
    /\ self.fetch_data =>
         /\ ~HasOpt(Transfer[1].cmd, "--no-data")
         /\ ~HasOpt(Transfer[1].cmd, "--no-create-info")
         /\ HasOpt(Transfer[1].cmd, "--complete-insert")

C3_Witness ==
  /\ pc = "done"
  /\ ~self.fetch_data
  /\ NDest = 2
  /\ Len(executed) = Len(cmd_list)

\* C4: with a non-empty ignore_tables, no schema-only dump command excludes
\* a table.
C4_SchemaDumpExcludesNothing ==
  (Planned /\ self.ignore_tables # <<>>) =>
    \A i \in 1..Len(cmd_list) :
      IsSchemaOnlyDump(cmd_list[i]) => ~HasOpt(cmd_list[i].cmd, "--ignore-table")

\* C5: at the end of a run without debug, a temp file created for the job
\* is gone exactly when no executed step naming it reported the error
\* marker; with debug, every created temp file is still there.
C5_TempFileCleanup ==
  pc = "done" =>
    IF ~self.debug
      THEN \A f \in CreatedTempFiles : (f \notin fs) <=> (FailedStepsOn(f) = {})
      ELSE CreatedTempFiles \subseteq fs

C5_Witness ==
  /\ pc = "done"
  /\ ~self.debug
  /\ \E f, g \in CreatedTempFiles :
       /\ f \in fs
       /\ Cardinality(FailedStepsOn(f)) = 2
       /\ g \notin fs

C7_QuietPrintsNothing ==
  self.quiet => console = <<>>

\* C8: construction raises whenever mysqldump or mysql is not on the PATH;
\* a constructed adapter has found both.
C8_BothClientsRequired ==
  /\ (pc # "start" /\ \E n \in { "mysqldump", "mysql" } :
        \A d \in Range(PathDirs) : << d, n >> \notin execs)
       => (pc = "raised" /\ cmd_list = <<>> /\ self.dest = <<>>)
  /\ pc \in { "constructed", "running", "done" }
       => (self.mysqldump # None /\ self.mysql # None)

\* the privilege string the permission mapping gives a test user
ClaimedPrivileges(u) ==
  IF HasKey(u, "permissions") /\ u["permissions"] = "admin" THEN "ALL"
  ELSE IF HasKey(u, "permissions") /\ u["permissions"] = "write"
    THEN "SELECT, INSERT, UPDATE, DELETE, EXECUTE"
  ELSE "SELECT"

\* C9: once the adapter is constructed and do_portage has planned, there is
\* one grant step per (test user x destination), user by user, carrying
\* ALL for admin, the five verbs for write and SELECT for anything else,
\* a user without a permission level included.
C9_PermissionMapping ==
  (Planned \/ (pc = "raised" /\ self.dest # <<>>)) =>
    /\ Len(Grants) = Len(self.test_users) * NDest
    /\ \A u \in 1..Len(self.test_users) : \A i \in 1..NDest :
         OptArgs(Grants[(u - 1) * NDest + i].cmd, "-e")
           = { << "GRANT", ClaimedPrivileges(self.test_users[u]),
                  "on", self.dest[i].name, "to", self.test_users[u]["user"],
                  "IDENTIFIED BY", self.test_users[u]["password"],
                  "FLUSH PRIVILEGES" >> }

====
